---- MODULE Spec2Model ----
(***************************************************************************)
(* Model of pkg/timestream/validator (validator.go): a tolerant validator  *)
(* of AWS Timestream SQL.  Validate(sql) strips comments, lexes the text   *)
(* into depth-tagged tokens, finds every SELECT, and for each SELECT that  *)
(* reads a base table requires a time predicate and a valid measure_name   *)
(* predicate in every top-level OR branch of its WHERE clause.             *)
(*                                                                         *)
(* Strings are TLA+ strings; s[i] of the Go code is Ch(s, i) and s[i:j] is *)
(* Slice(s, i, j), both 0-based as in the source.  A token array is a      *)
(* sequence; toks[i] of the Go code is toks[i + 1].                        *)
(*                                                                         *)
(* Go checks every index expression at run time and panics when the index *)
(* is outside the array.  Every operator that holds a loop over an array   *)
(* returns either Ok(v), its Go result, or Panic, the run-time bounds      *)
(* failure: the check is made for the loop's index at every iteration and  *)
(* for every lookahead group.  A read written in one short-circuit         *)
(* condition with its own upper-bound guard (i+1 < len(s) && s[i+1] == c)  *)
(* is in range whenever the loop's index is.                               *)
(***************************************************************************)
EXTENDS Integers, Sequences, FiniteSets, TLC

\* ------------------------------------------------------------------------
\* Go run-time semantics of indexing
\* ------------------------------------------------------------------------

\* The result of a call that panicked on an index out of range.
Panic == [panic |-> TRUE]

\* The result v of a call that returned.
Ok(v) == [panic |-> FALSE, v |-> v]

\* s[i], 0-based.
Ch(s, i) == SubSeq(s, i + 1, i + 1)

\* s[i:j], 0-based, j exclusive.
Slice(s, i, j) == SubSeq(s, i + 1, j)

\* Whether the index expression a[i] passes Go's bounds check.
InRange(a, i) == 0 <= i /\ i < Len(a)

\* ------------------------------------------------------------------------
\* Character classes (package unicode, restricted to ASCII input)
\* ------------------------------------------------------------------------

UpperChars == "ABCDEFGHIJKLMNOPQRSTUVWXYZ"

LowerChars == "abcdefghijklmnopqrstuvwxyz"

DigitChars == "0123456789"

UpperSet == {Ch(UpperChars, k) : k \in 0..25}

LowerSet == {Ch(LowerChars, k) : k \in 0..25}

DigitSet == {Ch(DigitChars, k) : k \in 0..9}

\* unicode.IsSpace on an ASCII byte.
IsSpace(c) == c \in {" ", "\t", "\n", "\r", "\f"}

\* unicode.IsLetter on an ASCII byte.
IsLetter(c) == c \in UpperSet \/ c \in LowerSet

\* unicode.IsDigit on an ASCII byte.
IsDigit(c) == c \in DigitSet

isIdentStart(b) == IsLetter(b) \/ b = "_" \/ b = "$"

isIdentPart(b) == IsLetter(b) \/ IsDigit(b) \/ b = "_" \/ b = "." \/ b = "$"

isNumStart(b) == IsDigit(b)

isNum(b) == IsDigit(b)

\* strings.ToLower on one ASCII byte.
LowerCh(c) ==
  IF c \in UpperSet
    THEN Ch(LowerChars, CHOOSE k \in 0..25 : Ch(UpperChars, k) = c)
    ELSE c

RECURSIVE ToLowerFrom(_, _)
ToLowerFrom(s, i) ==
  IF i >= Len(s) THEN "" ELSE LowerCh(Ch(s, i)) \o ToLowerFrom(s, i + 1)

\* strings.ToLower.
ToLower(s) == ToLowerFrom(s, 0)

RECURSIVE ContainsFrom(_, _, _)
ContainsFrom(s, sub, i) ==
  IF i + Len(sub) > Len(s) THEN FALSE
  ELSE IF Slice(s, i, i + Len(sub)) = sub THEN TRUE
  ELSE ContainsFrom(s, sub, i + 1)

\* strings.Contains.
Contains(s, sub) == ContainsFrom(s, sub, 0)

\* ------------------------------------------------------------------------
\* Tokens
\* ------------------------------------------------------------------------

tkIdent == "tkIdent"

tkKeyword == "tkKeyword"

tkString == "tkString"

tkNumber == "tkNumber"

tkSymbol == "tkSymbol"

token(val, kind, depth) == [val |-> val, kind |-> kind, depth |-> depth]

keywords ==
  {"select", "from", "where", "group", "by", "order", "having",
   "union", "intersect", "except", "join", "left", "right", "full",
   "outer", "inner", "cross", "on", "as", "with", "lateral",
   "between", "and", "or", "not", "in", "exists"}

\* ------------------------------------------------------------------------
\* stripComments
\* ------------------------------------------------------------------------

\* One iteration of the loop of stripComments on the loop state st: the
\* index i, the flags inLine and inBlock, the builder's content b.  Once the
\* loop has ended (i >= len(s), or a panic) the state stays as it is.
stripStep(s, st) ==
  IF st.panic \/ ~(st.i < Len(s)) THEN st
  ELSE IF ~InRange(s, st.i) THEN [st EXCEPT !.panic = TRUE]
  ELSE IF st.inLine THEN
    IF Ch(s, st.i) = "\n"
      THEN [st EXCEPT !.i = st.i + 1, !.inLine = FALSE, !.b = st.b \o Ch(s, st.i)]
      ELSE [st EXCEPT !.i = st.i + 1]
  ELSE IF st.inBlock THEN
    IF Ch(s, st.i) = "*" /\ st.i + 1 < Len(s) /\ Ch(s, st.i + 1) = "/"
      THEN [st EXCEPT !.i = st.i + 2, !.inBlock = FALSE]
      ELSE [st EXCEPT !.i = st.i + 1]
  ELSE IF Ch(s, st.i) = "-" /\ st.i + 1 < Len(s) /\ Ch(s, st.i + 1) = "-"
    THEN [st EXCEPT !.i = st.i + 2, !.inLine = TRUE]
  ELSE IF Ch(s, st.i) = "/" /\ st.i + 1 < Len(s) /\ Ch(s, st.i + 1) = "*"
    THEN [st EXCEPT !.i = st.i + 2, !.inBlock = TRUE]
  ELSE [st EXCEPT !.i = st.i + 1, !.b = st.b \o Ch(s, st.i)]

\* n iterations of the loop of stripComments from the loop state st.  The
\* iterations are composed by halves, which keeps the evaluation shallow.
RECURSIVE stripLoop(_, _, _)
stripLoop(s, st, n) ==
  IF n <= 0 THEN st
  ELSE IF n = 1 THEN stripStep(s, st)
  ELSE LET half == stripLoop(s, st, n \div 2) IN
       IF half.panic THEN half ELSE stripLoop(s, half, n - (n \div 2))

\* A variant of stripComments that returns the text as it is.
stripComments_KeepsAll(s) == Ok(s)

\* Every iteration advances i, so the loop ends within len(s) iterations.
stripComments(s) ==
  LET st == stripLoop(s, [i |-> 0, inLine |-> FALSE, inBlock |-> FALSE,
                          b |-> "", panic |-> FALSE], Len(s))
  IN IF st.panic THEN Panic ELSE Ok(st.b)

\* ------------------------------------------------------------------------
\* lex
\* ------------------------------------------------------------------------

\* The loop of readString from index j: <<the literal, the next index>>.
RECURSIVE readStringLoop(_, _, _, _)
readStringLoop(s, i, quote, j) ==
  IF ~(j < Len(s)) THEN Ok(<<Slice(s, i, Len(s)), Len(s)>>)
  ELSE IF ~InRange(s, j) THEN Panic
  ELSE IF Ch(s, j) = quote THEN
    IF j + 1 < Len(s) /\ Ch(s, j + 1) = quote
      THEN readStringLoop(s, i, quote, j + 2)
      ELSE Ok(<<Slice(s, i, j + 1), j + 1>>)
  ELSE readStringLoop(s, i, quote, j + 1)

readString(s, i, quote) == readStringLoop(s, i, quote, i + 1)

\* The end of the run of number characters that starts at j.
RECURSIVE numEnd(_, _)
numEnd(s, j) ==
  IF j < Len(s) /\ (isNum(Ch(s, j)) \/ Ch(s, j) = ".")
    THEN numEnd(s, j + 1) ELSE j

\* The end of the run of identifier characters that starts at j.
RECURSIVE identEnd(_, _)
identEnd(s, j) ==
  IF j < Len(s) /\ isIdentPart(Ch(s, j)) THEN identEnd(s, j + 1) ELSE j

\* Whether r followed by n is one of >=, <=, <>, !=.
isTwoCharOp(r, n) ==
  \/ r = ">" /\ n = "="
  \/ r = "<" /\ (n = "=" \/ n = ">")
  \/ r = "!" /\ n = "="

\* A variant of the decrement without the clamp at zero.
closeDepth_NoClamp(depth) == depth - 1

\* The depth a ')' leaves: decremented, clamped at zero.
closeDepth(depth) == IF depth - 1 < 0 THEN 0 ELSE depth - 1

\* The body of the main loop of lex at index i with the depth depth: the
\* index the next iteration starts at, its depth, and the token appended.
lexBody(s, i, depth) ==
  LET r == Ch(s, i) IN
  IF IsSpace(r) THEN Ok([i |-> i + 1, depth |-> depth, out |-> <<>>])
  ELSE IF r = "(" THEN
    Ok([i |-> i + 1, depth |-> depth + 1, out |-> <<token("(", tkSymbol, depth)>>])
  ELSE IF r = ")" THEN
    Ok([i |-> i + 1, depth |-> closeDepth(depth),
        out |-> <<token(")", tkSymbol, closeDepth(depth))>>])
  ELSE IF r = "'" \/ r = "\"" THEN
    LET rs == readString(s, i, r) IN
    IF rs.panic THEN Panic
    ELSE IF r = "\""
      THEN Ok([i |-> rs.v[2], depth |-> depth,
               out |-> <<token(ToLower(rs.v[1]), tkIdent, depth)>>])
      ELSE Ok([i |-> rs.v[2], depth |-> depth,
               out |-> <<token(rs.v[1], tkString, depth)>>])
  ELSE IF isNumStart(r) THEN
    LET j == numEnd(s, i + 1) IN
    Ok([i |-> j, depth |-> depth, out |-> <<token(Slice(s, i, j), tkNumber, depth)>>])
  ELSE IF isIdentStart(r) THEN
    LET j == identEnd(s, i + 1)
        word == ToLower(Slice(s, i, j))
    IN IF word \in keywords
         THEN Ok([i |-> j, depth |-> depth, out |-> <<token(word, tkKeyword, depth)>>])
         ELSE Ok([i |-> j, depth |-> depth, out |-> <<token(word, tkIdent, depth)>>])
  ELSE IF (r = ">" \/ r = "<" \/ r = "!") /\ i + 1 < Len(s)
          /\ isTwoCharOp(r, Ch(s, i + 1)) THEN
    Ok([i |-> i + 2, depth |-> depth,
        out |-> <<token(ToLower(Slice(s, i, i + 2)), tkSymbol, depth)>>])
  ELSE Ok([i |-> i + 1, depth |-> depth,
           out |-> <<token(ToLower(r), tkSymbol, depth)>>])

\* One iteration of the main loop of lex on the loop state st: the index i,
\* the depth, the tokens out.  Once the loop has ended the state stays.
lexStep(s, st) ==
  IF st.panic \/ ~(st.i < Len(s)) THEN st
  ELSE IF ~InRange(s, st.i) THEN [st EXCEPT !.panic = TRUE]
  ELSE LET r == lexBody(s, st.i, st.depth) IN
    IF r.panic THEN [st EXCEPT !.panic = TRUE]
    ELSE [i |-> r.v.i, depth |-> r.v.depth, out |-> st.out \o r.v.out,
          panic |-> FALSE]

\* n iterations of the main loop of lex, composed by halves.
RECURSIVE lexLoop(_, _, _)
lexLoop(s, st, n) ==
  IF n <= 0 THEN st
  ELSE IF n = 1 THEN lexStep(s, st)
  ELSE LET half == lexLoop(s, st, n \div 2) IN
       IF half.panic THEN half ELSE lexLoop(s, half, n - (n \div 2))

\* Every iteration advances i, so the loop ends within len(s) iterations.
lex(s) ==
  LET st == lexLoop(s, [i |-> 0, depth |-> 0, out |-> <<>>, panic |-> FALSE],
                    Len(s))
  IN IF st.panic THEN Panic ELSE Ok(st.out)

\* ------------------------------------------------------------------------
\* Scanning helpers
\* ------------------------------------------------------------------------

\* toks[i] of the Go code.
Tok(toks, i) == toks[i + 1]

\* Whether t is the keyword word.
isKeyword(t, word) == t.kind = tkKeyword /\ t.val = word

\* Whether t is the symbol sym.
isSymbol(t, sym) == t.kind = tkSymbol /\ t.val = sym

RECURSIVE findNextKeywordAtDepth(_, _, _, _)
findNextKeywordAtDepth(toks, start, depth, word) ==
  IF ~(start < Len(toks)) THEN Ok(-1)
  ELSE IF ~InRange(toks, start) THEN Panic
  ELSE IF Tok(toks, start).depth < depth THEN Ok(-1)
  ELSE IF Tok(toks, start).depth # depth
    THEN findNextKeywordAtDepth(toks, start + 1, depth, word)
  ELSE IF isKeyword(Tok(toks, start), word) THEN Ok(start)
  ELSE findNextKeywordAtDepth(toks, start + 1, depth, word)

\* The loop of findNextKeywordBetweenAtDepth, stop already normalised.
RECURSIVE keywordBetweenLoop(_, _, _, _, _)
keywordBetweenLoop(toks, i, stop, depth, word) ==
  IF ~(i < stop /\ i < Len(toks)) THEN Ok(-1)
  ELSE IF ~InRange(toks, i) THEN Panic
  ELSE IF Tok(toks, i).depth # depth
    THEN keywordBetweenLoop(toks, i + 1, stop, depth, word)
  ELSE IF isKeyword(Tok(toks, i), word) THEN Ok(i)
  ELSE keywordBetweenLoop(toks, i + 1, stop, depth, word)

\* A negative stop stands for the end of the token array.
normStop(toks, stop) == IF stop < 0 THEN Len(toks) ELSE stop

\* A variant of findNextKeywordBetweenAtDepth that searches to the end of the
\* tokens, past stop.
findNextKeywordBetweenAtDepth_PastStop(toks, start, stop, depth, word) ==
  keywordBetweenLoop(toks, start, Len(toks), depth, word)

findNextKeywordBetweenAtDepth(toks, start, stop, depth, word) ==
  keywordBetweenLoop(toks, start, normStop(toks, stop), depth, word)

\* The clause keywords that end a FROM or WHERE span.
isTerminatorWord(val) ==
  val \in {"group", "order", "having", "union", "intersect", "except"}

RECURSIVE findNextTerminatorAtDepth(_, _, _)
findNextTerminatorAtDepth(toks, start, depth) ==
  IF ~(start < Len(toks)) THEN Ok(Len(toks))
  ELSE IF ~InRange(toks, start) THEN Panic
  ELSE IF Tok(toks, start).depth < depth THEN Ok(start)
  ELSE IF /\ Tok(toks, start).depth = depth
          /\ Tok(toks, start).kind = tkKeyword
          /\ isTerminatorWord(Tok(toks, start).val) THEN Ok(start)
  ELSE findNextTerminatorAtDepth(toks, start + 1, depth)

isCompareOp(s) == s \in {"=", "<", ">", "<=", ">=", "<>", "!="}

\* A variant of isTimeIdentifierAt with the allowed columns time and
\* measure_time.
isTimeIdentifierAt_AllowedColumns(toks, i) ==
  /\ ~(i < 0 \/ i >= Len(toks))
  /\ Tok(toks, i).kind = tkIdent
  /\ Tok(toks, i).val \in {"time", "measure_time"}

stripQuotes(s) ==
  IF /\ Len(s) >= 2
     /\ \/ Ch(s, 0) = "\"" /\ Ch(s, Len(s) - 1) = "\""
        \/ Ch(s, 0) = "'" /\ Ch(s, Len(s) - 1) = "'"
    THEN ToLower(Slice(s, 1, Len(s) - 1))
    ELSE ToLower(s)

isTimeIdentifierAt(toks, i) ==
  IF i < 0 \/ i >= Len(toks) THEN FALSE
  ELSE IF Tok(toks, i).kind # tkIdent THEN FALSE
  ELSE Tok(toks, i).val = "time"

\* for j < stop && j < len(toks) && toks[j].depth != depth { j++ }
RECURSIVE skipOtherDepth(_, _, _, _)
skipOtherDepth(toks, j, stop, depth) ==
  IF ~(j < stop /\ j < Len(toks)) THEN Ok(j)
  ELSE IF ~InRange(toks, j) THEN Panic
  ELSE IF Tok(toks, j).depth # depth
    THEN skipOtherDepth(toks, j + 1, stop, depth)
  ELSE Ok(j)

\* ------------------------------------------------------------------------
\* fromStartsWithBaseTable
\* ------------------------------------------------------------------------

\* The first loop: advance to the first meaningful token at this depth.
\* Ok(-1) is the loop's "return false"; otherwise Ok(i), the index it stops at.
RECURSIVE fromSkipNoise(_, _, _, _)
fromSkipNoise(toks, i, stop, depth) ==
  IF ~(i < stop /\ i < Len(toks)) THEN Ok(i)
  ELSE IF ~InRange(toks, i) THEN Panic
  ELSE IF Tok(toks, i).depth # depth THEN fromSkipNoise(toks, i + 1, stop, depth)
  ELSE IF Tok(toks, i).kind = tkSymbol THEN
    IF Tok(toks, i).val = "(" THEN Ok(-1)
    ELSE fromSkipNoise(toks, i + 1, stop, depth)
  ELSE IF Tok(toks, i).kind = tkKeyword THEN
    IF Tok(toks, i).val = "select" THEN Ok(-1)
    ELSE fromSkipNoise(toks, i + 1, stop, depth)
  ELSE Ok(i)

\* A variant of the dotted-identifier branch without the function-call test.
fromDottedIdent_NoCallTest(toks, i, stop, depth) == Ok(TRUE)

\* The branch for an identifier that contains a dot: a base table unless the
\* next token at this depth is "(".
fromDottedIdent(toks, i, stop, depth) ==
  LET jr == skipOtherDepth(toks, i + 1, stop, depth) IN
  IF jr.panic THEN Panic
  ELSE IF jr.v < stop /\ jr.v < Len(toks)
    THEN IF ~InRange(toks, jr.v) THEN Panic
         ELSE IF isSymbol(Tok(toks, jr.v), "(") THEN Ok(FALSE) ELSE Ok(TRUE)
    ELSE Ok(TRUE)

\* The innermost loop: the token after the '.', skipping noise.
RECURSIVE fromAfterDot(_, _, _, _)
fromAfterDot(toks, k, stop, depth) ==
  IF ~(k < stop /\ k < Len(toks)) THEN Ok(FALSE)
  ELSE IF ~InRange(toks, k) THEN Panic
  ELSE IF Tok(toks, k).depth # depth THEN fromAfterDot(toks, k + 1, stop, depth)
  ELSE IF Tok(toks, k).kind = tkSymbol THEN fromAfterDot(toks, k + 1, stop, depth)
  ELSE Ok(Tok(toks, k).kind = tkIdent)

\* The last loop: seek the '.' after a bare identifier.
\* A variant of the seek-the-dot loop that takes every bare identifier for a
\* table name.
fromSeekDot_AlwaysTable(toks, j, stop, depth) == Ok(TRUE)

RECURSIVE fromSeekDot(_, _, _, _)
fromSeekDot(toks, j, stop, depth) ==
  IF ~(j < stop /\ j < Len(toks)) THEN Ok(FALSE)
  ELSE IF ~InRange(toks, j) THEN Panic
  ELSE IF Tok(toks, j).depth # depth THEN fromSeekDot(toks, j + 1, stop, depth)
  ELSE IF Tok(toks, j).kind = tkSymbol THEN
    IF Tok(toks, j).val # "." THEN fromSeekDot(toks, j + 1, stop, depth)
    ELSE fromAfterDot(toks, j + 1, stop, depth)
  ELSE Ok(FALSE)

fromStartsWithBaseTable(toks, start, stop, depth) ==
  LET ir == fromSkipNoise(toks, start, stop, depth) IN
  IF ir.panic THEN Panic
  ELSE IF ir.v = -1 THEN Ok(FALSE)
  ELSE IF ir.v >= stop \/ ir.v >= Len(toks) THEN Ok(FALSE)
  ELSE IF ~InRange(toks, ir.v) THEN Panic
  ELSE IF Tok(toks, ir.v).kind # tkIdent THEN Ok(FALSE)
  ELSE IF Contains(stripQuotes(Tok(toks, ir.v).val), ".")
    THEN fromDottedIdent(toks, ir.v, stop, depth)
  ELSE fromSeekDot(toks, ir.v + 1, stop, depth)

\* ------------------------------------------------------------------------
\* whereHasTimePredicate
\* ------------------------------------------------------------------------

\* How many tokens before a BETWEEN the look-back inspects.
lookBack == 6

\* The look-ahead from the time identifier at i: NOT BETWEEN, BETWEEN or a
\* comparison operator as the next token of the identifier's depth.
timeLookAhead(toks, i, stop) ==
  LET depth == Tok(toks, i).depth
      jr == skipOtherDepth(toks, i + 1, stop, depth)
  IN
  IF jr.panic THEN Panic
  ELSE IF ~(jr.v < stop /\ jr.v < Len(toks)) THEN Ok(FALSE)
  ELSE IF ~InRange(toks, jr.v) THEN Panic
  ELSE LET j == jr.v
           kr == skipOtherDepth(toks, j + 1, stop, depth)
       IN
    IF isKeyword(Tok(toks, j), "not") /\ kr.panic THEN Panic
    ELSE IF /\ isKeyword(Tok(toks, j), "not")
            /\ kr.v < stop /\ kr.v < Len(toks)
            /\ isKeyword(Tok(toks, kr.v), "between") THEN Ok(TRUE)
    ELSE IF isKeyword(Tok(toks, j), "between") THEN Ok(TRUE)
    ELSE IF Tok(toks, j).kind = tkSymbol /\ isCompareOp(Tok(toks, j).val)
      THEN Ok(TRUE)
    ELSE Ok(FALSE)

\* The look-back from the BETWEEN at i: for k := i-1; k >= start && k >= i-6.
RECURSIVE timeLookBack(_, _, _, _, _)
timeLookBack(toks, k, start, i, depth) ==
  IF ~(k >= start /\ k >= i - lookBack) THEN Ok(FALSE)
  ELSE IF ~InRange(toks, k) THEN Panic
  ELSE IF isKeyword(Tok(toks, k), "not")
    THEN timeLookBack(toks, k - 1, start, i, depth)
  ELSE IF isTimeIdentifierAt(toks, k) /\ Tok(toks, k).depth = depth THEN Ok(TRUE)
  ELSE timeLookBack(toks, k - 1, start, i, depth)

\* The outer loop of whereHasTimePredicate, stop already normalised.
RECURSIVE timeLoop(_, _, _, _)
timeLoop(toks, i, start, stop) ==
  IF ~(i < stop /\ i < Len(toks)) THEN Ok(FALSE)
  ELSE IF ~InRange(toks, i) THEN Panic
  ELSE LET ahead == IF isTimeIdentifierAt(toks, i)
                      THEN timeLookAhead(toks, i, stop) ELSE Ok(FALSE)
       IN
    IF ahead.panic THEN Panic
    ELSE IF ahead.v THEN Ok(TRUE)
    ELSE LET back == IF isKeyword(Tok(toks, i), "between")
                       THEN timeLookBack(toks, i - 1, start, i, Tok(toks, i).depth)
                       ELSE Ok(FALSE)
         IN
      IF back.panic THEN Panic
      ELSE IF back.v THEN Ok(TRUE)
      ELSE timeLoop(toks, i + 1, start, stop)

whereHasTimePredicate(toks, start, stop) ==
  timeLoop(toks, start, start, normStop(toks, stop))

\* ------------------------------------------------------------------------
\* whereHasMeasureNamePredicate
\* ------------------------------------------------------------------------

\* The guard of pattern 1: i+5 < stop && i+5 < len(toks).
regexpInBounds(toks, i, stop) == i + 5 < stop /\ i + 5 < Len(toks)

\* A variant of the guard of pattern 2 that is off by one: it admits a
\* measure_name whose second follower lies past the end.
equalsInBounds_OffByOne(toks, i, stop) == i + 1 < stop /\ i + 1 < Len(toks)

\* The guard of pattern 2: i+2 < stop && i+2 < len(toks).
equalsInBounds(toks, i, stop) == i + 2 < stop /\ i + 2 < Len(toks)

\* ( measure_name , 'string' ) in the five tokens after regexp_like.
isRegexpArgs(t1, t2, t3, t4, t5) ==
  /\ isSymbol(t1, "(")
  /\ t2.kind = tkIdent /\ t2.val = "measure_name"
  /\ isSymbol(t3, ",")
  /\ t4.kind = tkString
  /\ isSymbol(t5, ")")

\* = 'string' in the two tokens after measure_name.
isEqualsString(t1, t2) == isSymbol(t1, "=") /\ t2.kind = tkString

\* A variant of the result in which an invalid use does not count.
measureResult_IgnoresInvalid(foundValid, foundInvalid) == foundValid

\* return foundValid && !foundInvalid
measureResult(foundValid, foundInvalid) == foundValid /\ ~foundInvalid

\* The loop of whereHasMeasureNamePredicate, stop already normalised.
RECURSIVE measureLoop(_, _, _, _, _)
measureLoop(toks, i, stop, foundValid, foundInvalid) ==
  IF ~(i < stop /\ i < Len(toks)) THEN Ok(measureResult(foundValid, foundInvalid))
  ELSE IF ~InRange(toks, i) THEN Panic
  ELSE IF /\ Tok(toks, i).kind = tkIdent /\ Tok(toks, i).val = "regexp_like"
          /\ regexpInBounds(toks, i, stop)
          /\ ~InRange(toks, i + 5) THEN Panic
  ELSE IF /\ Tok(toks, i).kind = tkIdent /\ Tok(toks, i).val = "regexp_like"
          /\ regexpInBounds(toks, i, stop)
          /\ isRegexpArgs(Tok(toks, i + 1), Tok(toks, i + 2), Tok(toks, i + 3),
                          Tok(toks, i + 4), Tok(toks, i + 5))
    THEN measureLoop(toks, i + 6, stop, TRUE, foundInvalid)
  ELSE IF Tok(toks, i).kind = tkIdent /\ Tok(toks, i).val = "measure_name" THEN
    IF equalsInBounds(toks, i, stop) /\ ~InRange(toks, i + 2) THEN Panic
    ELSE IF /\ equalsInBounds(toks, i, stop)
            /\ isEqualsString(Tok(toks, i + 1), Tok(toks, i + 2))
      THEN measureLoop(toks, i + 3, stop, TRUE, foundInvalid)
    ELSE measureLoop(toks, i + 1, stop, foundValid, TRUE)
  ELSE measureLoop(toks, i + 1, stop, foundValid, foundInvalid)

whereHasMeasureNamePredicate(toks, start, stop) ==
  measureLoop(toks, start, normStop(toks, stop), FALSE, FALSE)

\* ------------------------------------------------------------------------
\* findTopLevelOrBranches
\* ------------------------------------------------------------------------

\* A variant of the separator test that takes an OR of any depth.
isOrSeparator_AnyDepth(t, depth) == t.kind = tkKeyword /\ t.val = "or"

\* An OR keyword at the WHERE clause's own depth separates two branches.
isOrSeparator(t, depth) == t.depth = depth /\ t.kind = tkKeyword /\ t.val = "or"

\* The loop of findTopLevelOrBranches, stop already normalised.
RECURSIVE orLoop(_, _, _, _, _, _)
orLoop(toks, i, stop, depth, currentBranchStart, branches) ==
  IF ~(i < stop /\ i < Len(toks))
    THEN Ok(Append(branches, <<currentBranchStart, stop>>))
  ELSE IF ~InRange(toks, i) THEN Panic
  ELSE IF isOrSeparator(Tok(toks, i), depth)
    THEN orLoop(toks, i + 1, stop, depth, i + 1,
                Append(branches, <<currentBranchStart, i>>))
  ELSE orLoop(toks, i + 1, stop, depth, currentBranchStart, branches)

\* A variant of findTopLevelOrBranches that takes the whole span for one
\* branch.
findTopLevelOrBranches_NoSplit(toks, start, stop, depth) ==
  Ok(<< <<start, normStop(toks, stop)>> >>)

findTopLevelOrBranches(toks, start, stop, depth) ==
  orLoop(toks, start, normStop(toks, stop), depth, start, <<>>)

\* ------------------------------------------------------------------------
\* snippetAroundTokens
\* ------------------------------------------------------------------------

\* The length after which a snippet is cut.
snippetLimit == 220

RECURSIVE TrimLeft(_)
TrimLeft(s) ==
  IF Len(s) > 0 /\ IsSpace(Ch(s, 0)) THEN TrimLeft(Slice(s, 1, Len(s))) ELSE s

RECURSIVE TrimRight(_)
TrimRight(s) ==
  IF Len(s) > 0 /\ IsSpace(Ch(s, Len(s) - 1))
    THEN TrimRight(Slice(s, 0, Len(s) - 1)) ELSE s

\* strings.TrimSpace.
TrimSpace(s) == TrimRight(TrimLeft(s))

\* The loop of snippetAroundTokens, start and stop already normalised.
RECURSIVE snippetLoop(_, _, _, _)
snippetLoop(toks, i, stop, b) ==
  IF ~(i < stop) THEN Ok(b)
  ELSE IF Len(b) > snippetLimit THEN Ok(b \o " ...")
  ELSE IF ~InRange(toks, i) THEN Panic
  ELSE snippetLoop(toks, i + 1, stop,
                   b \o Tok(toks, i).val \o (IF i + 1 < stop THEN " " ELSE ""))

snippetAroundTokens(toks, start, stop) ==
  LET start0 == IF start < 0 THEN 0 ELSE start
      stop0 == IF stop < 0 \/ stop > Len(toks) THEN Len(toks) ELSE stop
      r == snippetLoop(toks, start0, stop0, "")
  IN IF r.panic THEN Panic ELSE Ok(TrimSpace(r.v))

\* ------------------------------------------------------------------------
\* Validate
\* ------------------------------------------------------------------------

Issue(snippet, reason, depth) ==
  [Snippet |-> snippet, Reason |-> reason, AtDepth |-> depth]

reasonMissingWhere == "missing WHERE clause"

reasonTime == "WHERE clause lacks a time predicate"

reasonTimeOr == "an OR branch in WHERE clause lacks a time predicate"

reasonMeasure ==
  "WHERE clause lacks a valid measure_name predicate (requires = '...' or regexp_like)"

reasonMeasureOr ==
  "an OR branch in WHERE clause lacks a valid measure_name predicate (requires = '...' or regexp_like)"

\* A variant of collectSelects that takes only the SELECT keywords outside all
\* parentheses.
RECURSIVE collectSelects_TopLevelOnly(_, _, _)
collectSelects_TopLevelOnly(tk, i, acc) ==
  IF ~(i < Len(tk)) THEN Ok(acc)
  ELSE IF ~InRange(tk, i) THEN Panic
  ELSE IF Tok(tk, i).kind = tkKeyword /\ Tok(tk, i).val = "select" /\ Tok(tk, i).depth = 0
    THEN collectSelects_TopLevelOnly(tk, i + 1,
                        Append(acc, [selIdx |-> i, depth |-> Tok(tk, i).depth]))
  ELSE collectSelects_TopLevelOnly(tk, i + 1, acc)

\* The loop that collects the select-sites: every SELECT keyword, any depth.
RECURSIVE collectSelects(_, _, _)
collectSelects(tk, i, selects) ==
  IF ~(i < Len(tk)) THEN Ok(selects)
  ELSE IF ~InRange(tk, i) THEN Panic
  ELSE IF Tok(tk, i).kind = tkKeyword /\ Tok(tk, i).val = "select"
    THEN collectSelects(tk, i + 1,
                        Append(selects, [selIdx |-> i, depth |-> Tok(tk, i).depth]))
  ELSE collectSelects(tk, i + 1, selects)

\* The loop over the branches: <<hasMissingTime, hasMissingMeasure>>.
RECURSIVE checkBranches(_, _, _, _, _)
checkBranches(tk, branches, n, hasMissingTime, hasMissingMeasure) ==
  IF n > Len(branches) THEN Ok(<<hasMissingTime, hasMissingMeasure>>)
  ELSE LET branchStart == branches[n][1]
           branchStop == branches[n][2]
           tr == whereHasTimePredicate(tk, branchStart, branchStop)
           mr == whereHasMeasureNamePredicate(tk, branchStart, branchStop)
       IN
    IF tr.panic \/ mr.panic THEN Panic
    ELSE checkBranches(tk, branches, n + 1,
                       hasMissingTime \/ ~tr.v, hasMissingMeasure \/ ~mr.v)

\* What the loop body found for one select-site, besides its issues.
siteRecord(s, fromIdx, stopIdx, hitsDB, whereIdx, whereStop, branches, iss) ==
  [selIdx |-> s.selIdx, depth |-> s.depth, fromIdx |-> fromIdx,
   stopIdx |-> stopIdx, hitsDB |-> hitsDB, whereIdx |-> whereIdx,
   whereStop |-> whereStop, branches |-> branches, issues |-> iss]

\* A variant of reportIssues that reports the measure_name issue first.
reportIssues_MeasureFirst(tk, s, whereStop, hasMissingTime, hasMissingMeasure, hasInvalidOr) ==
  LET snip == snippetAroundTokens(tk, s.selIdx, whereStop) IN
  IF (hasMissingTime \/ hasMissingMeasure) /\ snip.panic THEN Panic
  ELSE Ok(
    (IF hasMissingMeasure
       THEN <<Issue(snip.v, IF hasInvalidOr THEN reasonMeasureOr ELSE reasonMeasure,
                    s.depth)>>
       ELSE <<>>)
    \o
    (IF hasMissingTime
       THEN <<Issue(snip.v, IF hasInvalidOr THEN reasonTimeOr ELSE reasonTime,
                    s.depth)>>
       ELSE <<>>))

\* The issues of a site whose WHERE clause was checked.
reportIssues(tk, s, whereStop, hasMissingTime, hasMissingMeasure, hasInvalidOr) ==
  LET snip == snippetAroundTokens(tk, s.selIdx, whereStop) IN
  IF (hasMissingTime \/ hasMissingMeasure) /\ snip.panic THEN Panic
  ELSE Ok(
    (IF hasMissingTime
       THEN <<Issue(snip.v, IF hasInvalidOr THEN reasonTimeOr ELSE reasonTime,
                    s.depth)>>
       ELSE <<>>)
    \o
    (IF hasMissingMeasure
       THEN <<Issue(snip.v, IF hasInvalidOr THEN reasonMeasureOr ELSE reasonMeasure,
                    s.depth)>>
       ELSE <<>>))

\* The part of the loop body after WHERE was found.
checkWhere(tk, s, fromIdx, stopIdx, whereIdx) ==
  LET ws == findNextTerminatorAtDepth(tk, whereIdx + 1, s.depth) IN
  IF ws.panic THEN Panic
  ELSE LET br == findTopLevelOrBranches(tk, whereIdx + 1, ws.v, s.depth) IN
  IF br.panic THEN Panic
  ELSE LET cb == checkBranches(tk, br.v, 1, FALSE, FALSE) IN
  IF cb.panic THEN Panic
  ELSE LET rep == reportIssues(tk, s, ws.v, cb.v[1], cb.v[2], Len(br.v) > 1) IN
  IF rep.panic THEN Panic
  ELSE Ok(siteRecord(s, fromIdx, stopIdx, TRUE, whereIdx, ws.v, br.v, rep.v))

\* The body of the loop over the select-sites, for the site s.
processSite(tk, s) ==
  LET fr == findNextKeywordAtDepth(tk, s.selIdx + 1, s.depth, "from") IN
  IF fr.panic THEN Panic
  ELSE IF fr.v = -1 THEN Ok(siteRecord(s, -1, -1, FALSE, -1, -1, <<>>, <<>>))
  ELSE LET st == findNextTerminatorAtDepth(tk, fr.v + 1, s.depth) IN
  IF st.panic THEN Panic
  ELSE LET hr == fromStartsWithBaseTable(tk, fr.v + 1, st.v, s.depth) IN
  IF hr.panic THEN Panic
  ELSE IF ~hr.v THEN Ok(siteRecord(s, fr.v, st.v, FALSE, -1, -1, <<>>, <<>>))
  ELSE LET wr == findNextKeywordBetweenAtDepth(tk, fr.v + 1, st.v, s.depth, "where") IN
  IF wr.panic THEN Panic
  ELSE IF wr.v = -1 THEN
    LET snip == snippetAroundTokens(tk, s.selIdx, st.v) IN
    IF snip.panic THEN Panic
    ELSE Ok(siteRecord(s, fr.v, st.v, TRUE, -1, -1, <<>>,
                       <<Issue(snip.v, reasonMissingWhere, s.depth)>>))
  ELSE checkWhere(tk, s, fr.v, st.v, wr.v)

\* The loop over the select-sites as one function: the issues of the sites
\* sel[n], sel[n+1], ... in order.
RECURSIVE validateLoop(_, _, _)
validateLoop(tk, sel, n) ==
  IF n > Len(sel) THEN <<>>
  ELSE processSite(tk, sel[n]).v.issues \o validateLoop(tk, sel, n + 1)

\* Validate as one function of the text.
Validate(text) ==
  LET tk == lex(stripComments(text).v).v
      iss == validateLoop(tk, collectSelects(tk, 0, <<>>).v, 1)
  IN [ok |-> Len(iss) = 0, issues |-> iss]

\* ------------------------------------------------------------------------
\* The texts Validate is called with
\* ------------------------------------------------------------------------

\* The most OR branches of a generated WHERE clause.
MaxBranches == 2

\* The most derived-table levels a generated query is wrapped in.
MaxNest == 1

\* FROM sources: a dotted name, a quoted two-part name, a quoted dotted name,
\* spaced parts, an alias, a function call, an alias followed by a joined or
\* comma-separated base table, a base table followed by a join, a derived
\* table, a keyword before a derived table, a number, nothing.
FromSources ==
  {"d.t", "\"d\".\"t\"", "\"d.t\"", "d . t", "a", "a b", "f.g(1)",
   "a join d.t on a.x = d.t.x", "a, d.t", "d.t join a on d.t.x = a.x",
   "(select 1) x", "(select 2) x join d.t on 1 = 1", "lateral (select 1) x",
   "1 d.t", "a ! . t", ""}

\* WHERE branches: with both predicates, with one of them, with neither, with
\* a second and invalid use of measure_name, with an OR inside parentheses.
Branches ==
  {"time > 1 and measure_name = 'x'",
   "time between 1 and 2 and regexp_like(measure_name, 'x')",
   "measure_name = 'x'",
   "time >= ago(1h)",
   "x = 1",
   "time > 1 and measure_name = 'x' and measure_name != 'y'",
   "(time > 1 or x = 1) and measure_name = 'x'",
   "(time > 1 and measure_name = 'x')",
   "time < 2 and regexp_like(measure_name, 'x', 1)",
   "time < 2 and regexp_like(measure_name, 'x') and measure_name",
   "measure_name = 'x' and time",
   ""}

\* The branches that generated OR chains are made of.
OrBranches ==
  {"time > 1 and measure_name = 'x'",
   "(time < 5 and regexp_like(measure_name, 'b'))",
   "measure_name = 'x'",
   "x between 1 and time",
   "(x = 1 or time > 1)"}

\* The WHERE bodies of at most n branches joined by OR.
RECURSIVE OrChains(_)
OrChains(n) ==
  IF n <= 1 THEN OrBranches
  ELSE OrChains(n - 1)
         \cup {b \o " or " \o w : b \in OrBranches, w \in OrChains(n - 1)}

\* The WHERE clauses: none, one branch, an OR chain.
Wheres1 == {""} \cup {" where " \o b : b \in Branches}

Wheres == Wheres1 \cup {" where " \o w : w \in OrChains(MaxBranches)}

\* What follows the WHERE clause.
Tails ==
  {"", " group by x", " having time > 1 and measure_name = 'x'",
   " order by time", " union select 1"}

Core(source, where, tail) == "select * from " \o source \o where \o tail

\* q as a derived table, k levels deep.
RECURSIVE Nest(_, _)
Nest(q, k) ==
  IF k <= 0 THEN q ELSE "select * from (" \o Nest(q, k - 1) \o ") x"

Simple == {Core(s, w, "") : s \in FromSources, w \in Wheres}

Tailed == {Core(s, w, tl) : s \in {"d.t", "a"}, w \in Wheres1, tl \in Tails}

Inner ==
  {Core(s, w, tl) : s \in {"d.t", "a"},
                    w \in {"", " where time > 1 and measure_name = 'x'",
                           " where time > 1", " where measure_name = 'x' or x = 1"},
                    tl \in {"", " group by x"}}

Nested ==
  {Nest(q, k) \o w : q \in Inner, k \in 1..MaxNest,
                     w \in {"", " where x.v > 0", " where time > 1"}}
    \cup {"with a as (" \o q \o ") select * from a" : q \in Inner}
    \cup {"with a as (" \o q \o "), b as (" \o r \o ") select * from a join b on a.x = b.x"
            : q \in Inner, r \in {"select * from d.t", "select * from d.t where time > 2 and measure_name = 'y'"}}
    \cup {q \o " union all " \o r : q \in Inner, r \in Inner}

\* The accepted false positive of the test suite: an OR inside parentheses.
BlindSpotExample ==
  "SELECT * FROM \"db\".\"tbl\"\n\t\tWHERE\n\t\t(time > ago(1h) OR device = 'd1')\n\t\tAND measure_name = 'foo'"

\* Texts taken from the package's tests.
Examples ==
  {"\nSELECT *\nFROM mydb.sensors\nWHERE time >= ago(15m) AND measure_name = 'foo'",
   "\nSELECT *\nFROM mydb.s1\nJOIN mydb.s2 ON s1.device = s2.device\nWHERE time >= ago(2h)",
   "\nSELECT 1",
   "\nSELECT *\nFROM mydb.s1\nWHERE NOT time BETWEEN ago(1h) AND now() AND measure_name = 'foo'",
   "\nSELECT device, max(time) AS t\nFROM mydb.s1\nGROUP BY device\nHAVING max(time) >= ago(1h)",
   "SELECT * FROM \"db\".\"tbl\"\n WHERE time > 10\n AND measure_name = 'foo'\n AND measure_name != 'bar'",
   "SELECT * FROM \"db\".\"tbl\"\n WHERE (time > 10 AND measure_name = 'a')\n OR (time < 5 AND measure_name = 'b')",
   BlindSpotExample}

\* Texts cut off at every length.
CutBases ==
  {"select * from d.t where time > 1 and measure_name = 'x' or (f(')') >= 2) group by x",
   "with a as (select x from \"d\".\"t\" where regexp_like(measure_name, 'x') and time not between 1 and 2) select 1",
   "select 'it''s' from d.t /* c */ where x between 1 and time -- c\n or measure_name = 'x'"}

Cuts == UNION {{Slice(q, 0, n) : n \in 0..Len(q)} : q \in CutBases}

\* Texts with unmatched parentheses and quotes.
Malformed ==
  {")", "))((", "select * from d.t where (time > 1 and measure_name = 'x'",
   "select * from d.t) where time > 1", ") select * from d.t", "'", "\"",
   "select * from (select * from d.t", "/*", "--", "select * from d.t where time > 1 and measure_name = 'x' )) or",
   "( select * from d.t where time > 1 and measure_name = 'x' ) )"}

\* Comments: what stands before the comment, the comment, what stands after.
CommentBodies ==
  {"time >= ago(1h)", "time > 1 and measure_name = 'x' and", "from d.t where",
   "-- ' (", "/* or )"}

Block(body) == "/* " \o body \o " */"

Line(body) == "-- " \o body \o "\n"

CommentSplits ==
  {<<"select * from d.t where ", " measure_name = 'x'">>,
   <<"select * from d.t where time > 1 and ", " measure_name = 'x'">>,
   <<"select * ", " from d.t where time > 1 and measure_name = 'x'">>,
   <<"select * from ", " a">>,
   <<"select * from d.t where time > 1 and measure_name = 'x' ", "">>,
   <<"", "select * from d.t">>}

Commented ==
  {[pre |-> sp[1], com |-> c, post |-> sp[2]] :
     sp \in CommentSplits,
     c \in {Block(b) : b \in CommentBodies} \cup {Line(b) : b \in CommentBodies}}
  \cup
  {[pre |-> sp[1], com |-> opener \o b \o sp[2], post |-> ""] :
     sp \in CommentSplits, opener \in {"/* ", "-- "}, b \in CommentBodies}

Plain(q) == [pre |-> q, com |-> "", post |-> ""]

\* The shapes of a predicate on the time column, and of predicates on other
\* columns.
TimeShapes ==
  {"time not between 1 and 2", "TIME >= ago(1h)", "time <> 1", "1 < time",
   "time + 1 between 2 and 3", "time + 1 + 1 + 1 + 1 between 2 and 3",
   "(time) + 1 between 2 and 3", "not time between 1 and 2",
   "(time) >= 1", "(time) and (> 1)", "f(time) and g(between 1 and 2)",
   "(time) and (not (x) between 1 and 2)", "time in (1)", "time not in (1)",
   "measure_time > 1", "t.time > 1", "\"time\" > 1",
   "measure_time between 1 and 2", "x between t.time and 2"}

Shaped ==
  {Core("d.t", " where " \o b \o " and measure_name = 'x'", "") : b \in TimeShapes}
    \cup {Core("d.t", " where x = 1 or " \o b, "") : b \in TimeShapes}

\* What a single-quoted string literal may hold: comment markers and text
\* free of them.
LiteralFillings == {"/*", "*/", "--", "a", "a -- b", "/* c */"}

\* Queries with two string literals; nothing outside the literals holds a
\* comment marker.
LiteralSelect(m1, m2) ==
  "SELECT '" \o m1 \o "' FROM db.t WHERE x = '" \o m2 \o "'"

LiteralWhere(m1, m2) ==
  "select * from d.t where x = '" \o m1 \o "' and time > 1 and measure_name = '"
    \o m2 \o "'"

Literals ==
  {LiteralSelect(m1, m2) : m1, m2 \in LiteralFillings}
    \cup {LiteralWhere(m1, m2) : m1, m2 \in LiteralFillings}

Inputs ==
  {Plain(q) : q \in Simple \cup Tailed \cup Nested \cup Examples \cup Cuts
                      \cup Malformed \cup Shaped \cup Literals}
    \cup Commented

\* ------------------------------------------------------------------------
\* The state machine of one call Validate(sql)
\* ------------------------------------------------------------------------

VARIABLES
  parts,     \* how the caller put the text together: pre, comment, post
  sql,       \* the argument of Validate
  pc,        \* where the call is: start, stripped, lexed, sites, done, panic
  src,       \* stripComments(sql)
  toks,      \* lex(src)
  selects,   \* the select-sites
  si,        \* how many select-sites the loop has processed
  issues,    \* the issues appended so far
  ok,        \* the returned verdict, once pc = "done"
  sites      \* history: what the loop body found for each processed site

vars == <<parts, sql, pc, src, toks, selects, si, issues, ok, sites>>

Init ==
  /\ parts \in Inputs
  /\ sql = parts.pre \o parts.com \o parts.post
  /\ pc = "start"
  /\ src = ""
  /\ toks = <<>>
  /\ selects = <<>>
  /\ si = 0
  /\ issues = <<>>
  /\ ok = FALSE
  /\ sites = <<>>

\* src := stripComments(sql)
Strip ==
  /\ pc = "start"
  /\ LET r == stripComments(sql) IN
       IF r.panic THEN pc' = "panic" /\ src' = src
       ELSE pc' = "stripped" /\ src' = r.v
  /\ UNCHANGED <<parts, sql, toks, selects, si, issues, ok, sites>>

\* toks := lex(src)
Lex ==
  /\ pc = "stripped"
  /\ LET r == lex(src) IN
       IF r.panic THEN pc' = "panic" /\ toks' = toks
       ELSE pc' = "lexed" /\ toks' = r.v
  /\ UNCHANGED <<parts, sql, src, selects, si, issues, ok, sites>>

\* The loop that collects the select-sites.
Collect ==
  /\ pc = "lexed"
  /\ LET r == collectSelects(toks, 0, <<>>) IN
       IF r.panic THEN pc' = "panic" /\ selects' = selects
       ELSE pc' = "sites" /\ selects' = r.v
  /\ UNCHANGED <<parts, sql, src, toks, si, issues, ok, sites>>

\* One iteration of the loop over the select-sites.
Site ==
  /\ pc = "sites"
  /\ si < Len(selects)
  /\ LET r == processSite(toks, selects[si + 1]) IN
       IF r.panic
         THEN pc' = "panic" /\ UNCHANGED <<si, issues, sites>>
         ELSE /\ pc' = pc
              /\ si' = si + 1
              /\ issues' = issues \o r.v.issues
              /\ sites' = Append(sites, r.v)
  /\ UNCHANGED <<parts, sql, src, toks, selects, ok>>

\* return len(issues) == 0, issues
Return ==
  /\ pc = "sites"
  /\ si = Len(selects)
  /\ ok' = (Len(issues) = 0)
  /\ pc' = "done"
  /\ UNCHANGED <<parts, sql, src, toks, selects, si, issues, sites>>

Next == Strip \/ Lex \/ Collect \/ Site \/ Return

Spec == Init /\ [][Next]_vars

\* ------------------------------------------------------------------------
\* Vocabulary of the properties: the clauses of a select-site, stated over
\* the token sequence with quantifiers, not with the scanning loops
\* ------------------------------------------------------------------------

NTok == Len(toks)

\* The token at the 0-based index i.
T(i) == toks[i + 1]

KwAt(i, word) == T(i).kind = tkKeyword /\ T(i).val = word

SymAt(i, sym) == T(i).kind = tkSymbol /\ T(i).val = sym

Least(S) == CHOOSE x \in S : \A y \in S : x <= y

\* The positions of the SELECT keywords.
SelectPositions == {i \in 0..NTok - 1 : KwAt(i, "select")}

RECURSIVE Ascending(_)
Ascending(S) ==
  IF S = {} THEN <<>> ELSE <<Least(S)>> \o Ascending(S \ {Least(S)})

\* The FROM of the SELECT at p of depth d: the first FROM keyword of depth d
\* after p with no token of lower depth in between; -1 when there is none.
FromOf(p, d) ==
  LET F == {f \in p + 1..NTok - 1 :
              /\ KwAt(f, "from") /\ T(f).depth = d
              /\ \A m \in p + 1..f - 1 : T(m).depth >= d}
  IN IF F = {} THEN -1 ELSE Least(F)

\* Where the clause that starts at from ends: the first token of lower depth
\* or the first terminator keyword of depth d, else the end of input.
ClauseEnd(from, d) ==
  LET E == {e \in from..NTok - 1 :
              \/ T(e).depth < d
              \/ /\ T(e).depth = d /\ T(e).kind = tkKeyword
                 /\ T(e).val \in {"group", "order", "having", "union",
                                  "intersect", "except"}}
  IN IF E = {} THEN NTok ELSE Least(E)

\* The WHERE of the site whose FROM is at f: the first WHERE keyword of depth d
\* before the clause end; -1 when there is none.
WhereOf(f, d) ==
  LET W == {w \in f + 1..ClauseEnd(f + 1, d) - 1 : KwAt(w, "where") /\ T(w).depth = d}
  IN IF W = {} THEN -1 ELSE Least(W)

\* The issues the loop body yields for the SELECT keyword at position p.
IssuesOfSelectAt(p) == processSite(toks, [selIdx |-> p, depth |-> T(p).depth]).v.issues

RECURSIVE ConcatIssues(_)
ConcatIssues(ps) ==
  IF ps = <<>> THEN <<>> ELSE IssuesOfSelectAt(Head(ps)) \o ConcatIssues(Tail(ps))

\* ------------------------------------------------------------------------
\* C2
\* ------------------------------------------------------------------------

\* C2: Validate returns ok = true exactly when the returned issue list is
\* empty; every SELECT keyword of the token sequence, at any depth, is one
\* select-site, and the issue list is the issues of all of them in order, so
\* an issue of any one site makes ok false whatever the other sites produce.
C2_AllSitesAggregated ==
  pc = "done" =>
    /\ ok = (issues = <<>>)
    /\ Len(selects) = Cardinality(SelectPositions)
    /\ \A k \in 1..Len(selects) :
         /\ selects[k].selIdx \in SelectPositions
         /\ selects[k].depth = T(selects[k].selIdx).depth
    /\ issues = ConcatIssues(Ascending(SelectPositions))
    /\ \A p \in SelectPositions : IssuesOfSelectAt(p) # <<>> => ~ok

\* A finished call with a nested site that yields an issue and another
\* base-table site that yields none.
C2_Witness ==
  /\ pc = "done"
  /\ ~ok
  /\ \E j, k \in 1..Len(sites) :
       /\ sites[j].hitsDB /\ sites[j].issues = <<>>
       /\ sites[k].depth > 0 /\ sites[k].issues # <<>>

\* ------------------------------------------------------------------------
\* C1
\* ------------------------------------------------------------------------

\* The end of the FROM clause whose FROM keyword is at f: its WHERE, else the
\* end of the clause.
FromClauseEnd(f, d) ==
  IF WhereOf(f, d) # -1 THEN WhereOf(f, d) ELSE ClauseEnd(f + 1, d)

\* A source of the FROM clause starts at m: right after FROM, after a comma or
\* after JOIN.
SourceStartsAt(f, m, d) ==
  \/ m = f + 1
  \/ /\ T(m - 1).depth = d
     /\ (SymAt(m - 1, ",") \/ KwAt(m - 1, "join"))

\* The token at m names a table as db.table: one dotted identifier that is
\* no function call, or identifier . identifier.
QualifiedNameAt(m, e, d) ==
  /\ T(m).kind = tkIdent /\ T(m).depth = d
  /\ \/ /\ Contains(stripQuotes(T(m).val), ".")
        /\ ~(m + 1 < e /\ SymAt(m + 1, "(") /\ T(m + 1).depth = d)
     \/ /\ m + 2 < e
        /\ SymAt(m + 1, ".") /\ T(m + 1).depth = d
        /\ T(m + 2).kind = tkIdent /\ T(m + 2).depth = d

\* The SELECT at p reads a Timestream table directly: some source of its FROM
\* clause is a qualified table name.
ReadsBaseTable(p) ==
  LET d == T(p).depth
      f == FromOf(p, d)
  IN /\ f # -1
     /\ \E m \in f + 1..FromClauseEnd(f, d) - 1 :
          SourceStartsAt(f, m, d) /\ QualifiedNameAt(m, FromClauseEnd(f, d), d)

\* The OR keywords of depth d in the span [a, e).
OrPositions(a, e, d) == {o \in a..e - 1 : KwAt(o, "or") /\ T(o).depth = d}

\* The branches of the span [a, e): the maximal ranges [x, y) between two
\* neighbouring cuts, a cut being an OR of depth d or an end of the span.
BranchesOf(a, e, d) ==
  LET cuts == OrPositions(a, e, d) \cup {a - 1, e}
  IN {<<x + 1, y>> : <<x, y>> \in
        {c \in cuts \X cuts :
           c[1] < c[2] /\ \A z \in cuts : ~(c[1] < z /\ z < c[2])}}

\* The tokens of the range [a, b) on their own.
Isolated(a, b) == SubSeq(toks, a + 1, b)

\* The range [a, b) holds a time predicate and a valid measure_name predicate,
\* judged on its own tokens only.
BranchIsFiltered(a, b) ==
  /\ whereHasTimePredicate(Isolated(a, b), 0, b - a).v
  /\ whereHasMeasureNamePredicate(Isolated(a, b), 0, b - a).v

\* The SELECT at p has a WHERE at its depth whose every top-level OR branch
\* is filtered.
SiteIsFiltered(p) ==
  LET d == T(p).depth
      w == WhereOf(FromOf(p, d), d)
  IN /\ w # -1
     /\ \A b \in BranchesOf(w + 1, ClauseEnd(w + 1, d), d) : BranchIsFiltered(b[1], b[2])

\* C1: (does not hold) whenever Validate returns ok = true, every select-site
\* whose FROM clause names a dot-qualified base table at the site's depth, as
\* the first source or as a later comma- or JOIN-joined source, has a WHERE
\* clause at that depth in which every top-level OR branch contains a time
\* predicate and a valid measure_name predicate.
C1_AcceptedReadsAreFiltered ==
  (pc = "done" /\ ok) =>
    \A p \in SelectPositions : ReadsBaseTable(p) => SiteIsFiltered(p)

\* The same for the first source alone, which is all the code inspects.
C1_FirstSourceIsFiltered ==
  (pc = "done" /\ ok) =>
    \A p \in SelectPositions :
      LET d == T(p).depth
          f == FromOf(p, d)
      IN (f # -1 /\ f + 1 < FromClauseEnd(f, d)
            /\ QualifiedNameAt(f + 1, FromClauseEnd(f, d), d))
         => SiteIsFiltered(p)

\* ------------------------------------------------------------------------
\* C3
\* ------------------------------------------------------------------------

\* A string literal that runs to the end of input without its closing quote.
UnterminatedString(val) ==
  Len(val) = 1 \/ Ch(val, Len(val) - 1) # Ch(val, 0)

\* C3: Validate is total and panic-free: on every input, unterminated
\* strings and comments, unmatched parentheses and cut-off clauses included,
\* no step reads a byte or a token outside its array, every step before the
\* return can be taken, and the call ends with a verdict after every
\* select-site has been processed.
C3_TotalAndPanicFree ==
  /\ pc # "panic"
  /\ \/ pc \in {"start", "stripped", "lexed", "done"}
     \/ pc = "sites" /\ si < Len(selects)
     \/ pc = "sites" /\ si = Len(selects)
  /\ pc \in {"sites", "done"} => Len(sites) = si /\ Len(selects) <= NTok
  /\ pc = "done" => si = Len(selects) /\ ok \in BOOLEAN

\* A finished call on a text cut inside a string literal and inside an open
\* parenthesis, with a base-table site whose WHERE was scanned.
C3_Witness ==
  /\ pc = "done"
  /\ NTok > 0
  /\ T(NTok - 1).kind = tkString /\ UnterminatedString(T(NTok - 1).val)
  /\ T(NTok - 1).depth > 0
  /\ \E k \in 1..Len(sites) : sites[k].whereIdx # -1

\* A finished call on a text that ends inside a block comment.
C3_WitnessOpenComment ==
  /\ pc = "done"
  /\ parts.com # "" /\ parts.post = ""
  /\ Slice(parts.com, 0, 2) = "/*"
  /\ Len(selects) > 0

\* ------------------------------------------------------------------------
\* C4
\* ------------------------------------------------------------------------

\* The first meaningful token of the FROM span of depth d that follows the
\* FROM at f: the first token of that depth that is no stray symbol and no
\* keyword, or is ( or SELECT; -1 when there is none.
FirstMeaningful(f, d) ==
  LET M == {m \in f + 1..ClauseEnd(f + 1, d) - 1 :
              /\ T(m).depth = d
              /\ \/ T(m).kind \notin {tkSymbol, tkKeyword}
                 \/ SymAt(m, "(")
                 \/ KwAt(m, "select")}
  IN IF M = {} THEN -1 ELSE Least(M)

\* A . of depth d follows the token at m inside [m, e), with nothing but
\* stray symbols and nested tokens in between.
DotFollows(m, e, d) ==
  \E j \in m + 1..e - 1 :
    /\ SymAt(j, ".") /\ T(j).depth = d
    /\ \A x \in m + 1..j - 1 : T(x).depth # d \/ T(x).kind = tkSymbol

\* The token at m is one unqualified identifier.
BareIdentAt(m) ==
  T(m).kind = tkIdent /\ ~Contains(stripQuotes(T(m).val), ".")

\* (a) no FROM at the depth of the SELECT at p.
NoFromAtDepth(p) == FromOf(p, T(p).depth) = -1

\* (b) the source is a derived table.
SourceIsDerived(p) ==
  LET d == T(p).depth
      m == FirstMeaningful(FromOf(p, d), d)
  IN /\ FromOf(p, d) # -1 /\ m # -1
     /\ (SymAt(m, "(") \/ KwAt(m, "select"))

\* (c) the source is an alias or a CTE name.
SourceIsAlias(p) ==
  LET d == T(p).depth
      f == FromOf(p, d)
      m == FirstMeaningful(f, d)
  IN /\ f # -1 /\ m # -1
     /\ BareIdentAt(m)
     /\ ~DotFollows(m, ClauseEnd(f + 1, d), d)

NotDirectRead(p) == NoFromAtDepth(p) \/ SourceIsDerived(p) \/ SourceIsAlias(p)

\* C4: a select-site that is no direct base-table read, because (a) it has no
\* FROM at its depth, (b) its first meaningful token after FROM is ( or
\* SELECT, or (c) its source is one unqualified identifier that no . follows,
\* adds nothing to the issue list when the loop processes it.
C4_IndirectSiteAddsNoIssue ==
  [][(pc = "sites" /\ si < Len(selects) /\ NotDirectRead(selects[si + 1].selIdx))
       => (issues' = issues /\ pc' = "sites")]_vars

\* The same on the record of what each site found.
C4_IndirectSiteRecord ==
  \A k \in 1..Len(sites) :
    NotDirectRead(sites[k].selIdx) => (sites[k].issues = <<>> /\ ~sites[k].hitsDB)

\* A finished call in which a site over a derived table, a site without FROM
\* or over an alias, and an inner site with an issue all occur.
C4_Witness ==
  /\ pc = "done"
  /\ \E j, k \in 1..Len(sites) :
       /\ SourceIsDerived(sites[j].selIdx) /\ sites[j].issues = <<>>
       /\ sites[k].depth > sites[j].depth /\ sites[k].issues # <<>>
  /\ ~ok

\* Finished calls with a site without FROM and with a site over an alias.
C4_WitnessNoFrom == pc = "done" /\ \E k \in 1..Len(sites) : NoFromAtDepth(sites[k].selIdx)

C4_WitnessAlias == pc = "done" /\ \E k \in 1..Len(sites) : SourceIsAlias(sites[k].selIdx)

\* ------------------------------------------------------------------------
\* C5
\* ------------------------------------------------------------------------

\* The next token of depth d after m inside [m, e); -1 when there is none.
NextAtDepth(m, e, d) ==
  LET N == {j \in m + 1..e - 1 : T(j).depth = d}
  IN IF N = {} THEN -1 ELSE Least(N)

\* The source that starts at m is one identifier with a . in its name.
DottedIdentAt(m) ==
  T(m).kind = tkIdent /\ Contains(stripQuotes(T(m).val), ".")

\* The token at m is immediately followed at depth d by (.
CallFollows(m, e, d) ==
  NextAtDepth(m, e, d) # -1 /\ SymAt(NextAtDepth(m, e, d), "(")

\* The source that starts at m is the three tokens identifier . identifier.
ThreeTokenNameAt(m, e, d) ==
  /\ BareIdentAt(m)
  /\ m + 2 < e
  /\ SymAt(m + 1, ".") /\ T(m + 1).depth = d
  /\ T(m + 2).kind = tkIdent /\ T(m + 2).depth = d

\* The bare identifier at m is followed by a token that is no symbol, or by
\* the end of the FROM span.
AliasEndsAt(m, e, d) ==
  /\ BareIdentAt(m)
  /\ \/ NextAtDepth(m, e, d) = -1
     \/ T(NextAtDepth(m, e, d)).kind # tkSymbol

\* What fromStartsWithBaseTable returns for the FROM span of the SELECT at p.
HitsDB(p) ==
  LET d == T(p).depth
      f == FromOf(p, d)
  IN fromStartsWithBaseTable(toks, f + 1, ClauseEnd(f + 1, d), d).v

\* C5: for a FROM span whose first meaningful token is an identifier,
\* fromStartsWithBaseTable returns true when that identifier contains a . and
\* is not immediately followed at the same depth by (, and when the source is
\* identifier . identifier; it returns false for a dotted identifier
\* immediately followed by ( and for a bare identifier followed by a token
\* that is no symbol or by the end of the span.
C5_SourceClassification ==
  pc \in {"sites", "done"} =>
    \A p \in SelectPositions :
      LET d == T(p).depth
          f == FromOf(p, d)
          e == ClauseEnd(f + 1, d)
          m == FirstMeaningful(f, d)
      IN (f # -1 /\ m # -1 /\ T(m).kind = tkIdent) =>
           /\ (DottedIdentAt(m) /\ ~CallFollows(m, e, d)) => HitsDB(p)
           /\ ThreeTokenNameAt(m, e, d) => HitsDB(p)
           /\ (DottedIdentAt(m) /\ CallFollows(m, e, d)) => ~HitsDB(p)
           /\ AliasEndsAt(m, e, d) => ~HitsDB(p)

\* The loop recorded the same classification for every site it processed.
C5_RecordedClassification ==
  \A k \in 1..Len(sites) :
    sites[k].fromIdx # -1 => sites[k].hitsDB = HitsDB(sites[k].selIdx)

\* The first meaningful token and the end of the FROM span of the kth
\* processed site.
SourceOf(k) == FirstMeaningful(sites[k].fromIdx, sites[k].depth)

SpanEndOf(k) == ClauseEnd(sites[k].fromIdx + 1, sites[k].depth)

HasSource(k) == sites[k].fromIdx # -1 /\ SourceOf(k) # -1

\* A finished call with a site over a dotted name that is classified as a
\* base table and a site over an alias that is not.
C5_Witness ==
  /\ pc = "done"
  /\ \E j, k \in 1..Len(sites) :
       /\ HasSource(j) /\ DottedIdentAt(SourceOf(j))
       /\ ~CallFollows(SourceOf(j), SpanEndOf(j), sites[j].depth)
       /\ sites[j].hitsDB
       /\ HasSource(k) /\ AliasEndsAt(SourceOf(k), SpanEndOf(k), sites[k].depth)
       /\ ~sites[k].hitsDB

\* A finished call with a site over "db"."table".
C5_WitnessThreeTokens ==
  /\ pc = "done"
  /\ \E k \in 1..Len(sites) :
       /\ HasSource(k) /\ ThreeTokenNameAt(SourceOf(k), SpanEndOf(k), sites[k].depth)
       /\ Ch(T(SourceOf(k)).val, 0) = "\""
       /\ sites[k].hitsDB

\* A finished call with a site over a function call with a dotted name.
C5_WitnessCall ==
  /\ pc = "done"
  /\ \E k \in 1..Len(sites) :
       /\ HasSource(k) /\ DottedIdentAt(SourceOf(k))
       /\ CallFollows(SourceOf(k), SpanEndOf(k), sites[k].depth)
       /\ ~sites[k].hitsDB

\* ------------------------------------------------------------------------
\* C6
\* ------------------------------------------------------------------------

\* The kth processed site reads a base table and has no WHERE of its depth
\* between its FROM and the first terminator.
LacksWhere(k) ==
  /\ sites[k].hitsDB
  /\ WhereOf(FromOf(sites[k].selIdx, sites[k].depth), sites[k].depth) = -1

\* A reference to time or measure_name stands after
\* the terminator of the kth site, at its depth.
PredicateAfterTerminator(k) ==
  \E i \in SpanEndOf(k)..NTok - 1 :
    /\ T(i).depth = sites[k].depth
    /\ T(i).kind = tkIdent /\ T(i).val \in {"time", "measure_name"}

\* C6: a base-table select-site with no WHERE keyword of its depth between
\* its FROM and the first terminator yields exactly one issue, with reason
\* "missing WHERE clause" and AtDepth equal to the site's depth, and no time
\* or measure_name issue, whatever stands after the terminator; ok is false.
C6_MissingWhere ==
  \A k \in 1..Len(sites) :
    LacksWhere(k) =>
      /\ Len(sites[k].issues) = 1
      /\ sites[k].issues[1].Reason = "missing WHERE clause"
      /\ sites[k].issues[1].AtDepth = sites[k].depth
      /\ sites[k].issues[1].AtDepth = T(sites[k].selIdx).depth
      /\ \E i \in 1..Len(issues) : issues[i] = sites[k].issues[1]
      /\ pc = "done" => ~ok

\* A finished call with a base-table site without WHERE whose predicates
\* stand after the terminator.
C6_Witness ==
  /\ pc = "done"
  /\ \E k \in 1..Len(sites) :
       /\ LacksWhere(k)
       /\ SpanEndOf(k) < NTok /\ KwAt(SpanEndOf(k), "having")
       /\ PredicateAfterTerminator(k)

\* A finished call with a nested base-table site without WHERE whose span
\* ends at a token of lower depth.
C6_WitnessDepthDrop ==
  /\ pc = "done"
  /\ \E k \in 1..Len(sites) :
       /\ LacksWhere(k) /\ sites[k].depth > 0
       /\ SpanEndOf(k) < NTok /\ T(SpanEndOf(k)).depth < sites[k].depth

\* ------------------------------------------------------------------------
\* C7
\* ------------------------------------------------------------------------

\* The kth processed site reads a base table and has a WHERE of its depth.
HasWhere(k) ==
  /\ sites[k].hitsDB
  /\ WhereOf(FromOf(sites[k].selIdx, sites[k].depth), sites[k].depth) # -1

\* The branches of the WHERE span of the kth site, cut at each OR of exactly
\* the site's depth.
WhereBranches(k) ==
  LET d == sites[k].depth
      w == WhereOf(FromOf(sites[k].selIdx, d), d)
  IN BranchesOf(w + 1, ClauseEnd(w + 1, d), d)

\* C7: a base-table select-site with a WHERE clause yields no issue if and
\* only if every branch of the WHERE span, cut at each OR of exactly the
\* site's depth, holds within its own tokens both a time predicate and a
\* valid measure_name predicate; what the scan of a branch finds in place is
\* what it finds on the branch's tokens alone, so a predicate of one branch
\* never serves another.
C7_EveryBranchFiltered ==
  \A k \in 1..Len(sites) :
    HasWhere(k) =>
      /\ (sites[k].issues = <<>>) =
           (\A b \in WhereBranches(k) : BranchIsFiltered(b[1], b[2]))
      /\ \A b \in WhereBranches(k) :
           /\ whereHasTimePredicate(toks, b[1], b[2]).v
                = whereHasTimePredicate(Isolated(b[1], b[2]), 0, b[2] - b[1]).v
           /\ whereHasMeasureNamePredicate(toks, b[1], b[2]).v
                = whereHasMeasureNamePredicate(Isolated(b[1], b[2]), 0, b[2] - b[1]).v

\* A finished call with a site whose WHERE has two branches, one with both
\* predicates and one without, and which yields an issue.
C7_Witness ==
  /\ pc = "done"
  /\ \E k \in 1..Len(sites) :
       /\ HasWhere(k)
       /\ Cardinality(WhereBranches(k)) >= 2
       /\ \E b \in WhereBranches(k) : BranchIsFiltered(b[1], b[2])
       /\ \E b \in WhereBranches(k) : ~BranchIsFiltered(b[1], b[2])
       /\ sites[k].issues # <<>>

\* A finished call with a site whose WHERE has two branches, both filtered,
\* and which yields no issue.
C7_WitnessAllFiltered ==
  /\ pc = "done"
  /\ \E k \in 1..Len(sites) :
       /\ HasWhere(k)
       /\ Cardinality(WhereBranches(k)) >= 2
       /\ \A b \in WhereBranches(k) : BranchIsFiltered(b[1], b[2])
       /\ sites[k].issues = <<>>

\* A finished call with a two-branch WHERE in which the time predicate stands
\* in one branch only and the measure_name predicate in the other only.
C7_WitnessSplitPredicates ==
  /\ pc = "done"
  /\ \E k \in 1..Len(sites) :
       /\ HasWhere(k)
       /\ \E b, c \in WhereBranches(k) :
            /\ whereHasTimePredicate(toks, b[1], b[2]).v
            /\ ~whereHasMeasureNamePredicate(toks, b[1], b[2]).v
            /\ ~whereHasTimePredicate(toks, c[1], c[2]).v
            /\ whereHasMeasureNamePredicate(toks, c[1], c[2]).v
       /\ Len(sites[k].issues) = 2

\* ------------------------------------------------------------------------
\* C8
\* ------------------------------------------------------------------------

\* The first token of the WHERE span of the kth site and the end of the span.
WhereStartOf(k) ==
  WhereOf(FromOf(sites[k].selIdx, sites[k].depth), sites[k].depth) + 1

WhereEndOf(k) == ClauseEnd(WhereStartOf(k), sites[k].depth)

\* The token at i lies in the nth branch that the code returned for site k.
InBranch(k, n, i) ==
  sites[k].branches[n][1] <= i /\ i < sites[k].branches[n][2]

\* C8: an OR keyword deeper than the site never splits the WHERE clause:
\* findTopLevelOrBranches returns one branch more than there are OR keywords
\* of the site's depth in the WHERE span; the branches are contiguous and
\* disjoint and cover every token of the span but those OR keywords; and the
\* parenthesised OR of the test suite's accepted false positive is one branch
\* and yields ok = true.
C8_BranchesPartitionTheSpan ==
  /\ \A k \in 1..Len(sites) :
       HasWhere(k) =>
         LET br == sites[k].branches
             a == WhereStartOf(k)
             e == WhereEndOf(k)
             d == sites[k].depth
         IN /\ Len(br) = Cardinality(OrPositions(a, e, d)) + 1
            /\ br[1][1] = a /\ br[Len(br)][2] = e
            /\ \A n \in 1..Len(br) : br[n][1] <= br[n][2]
            /\ \A n \in 1..Len(br) - 1 :
                 /\ br[n + 1][1] = br[n][2] + 1
                 /\ br[n][2] \in OrPositions(a, e, d)
            /\ \A i \in a..e - 1 :
                 /\ i \in OrPositions(a, e, d) => \A n \in 1..Len(br) : ~InBranch(k, n, i)
                 /\ i \notin OrPositions(a, e, d) =>
                      Cardinality({n \in 1..Len(br) : InBranch(k, n, i)}) = 1
            /\ \A i \in a..e - 1 :
                 (KwAt(i, "or") /\ T(i).depth > d) =>
                    \E n \in 1..Len(br) : InBranch(k, n, i) /\ br[n][1] < i
            /\ br = findTopLevelOrBranches(toks, a, e, d).v
  /\ (pc = "done" /\ sql = BlindSpotExample) =>
       /\ ok
       /\ Len(sites) = 1 /\ HasWhere(1) /\ Len(sites[1].branches) = 1

\* The finished call on the accepted false positive: one branch with an OR
\* inside parentheses, no issue.
C8_Witness ==
  /\ pc = "done" /\ sql = BlindSpotExample /\ ok
  /\ \E i \in WhereStartOf(1)..WhereEndOf(1) - 1 :
       KwAt(i, "or") /\ T(i).depth > sites[1].depth

\* A finished call with a WHERE that has both an OR of the site's depth and a
\* deeper OR.
C8_WitnessMixed ==
  /\ pc = "done"
  /\ \E k \in 1..Len(sites) :
       /\ HasWhere(k)
       /\ Len(sites[k].branches) >= 2
       /\ \E i \in WhereStartOf(k)..WhereEndOf(k) - 1 :
            KwAt(i, "or") /\ T(i).depth > sites[k].depth

\* ------------------------------------------------------------------------
\* C9
\* ------------------------------------------------------------------------

MeasureNameAt(i) == T(i).kind = tkIdent /\ T(i).val = "measure_name"

\* The three tokens measure_name = StringLiteral start at i and end before b.
EqualsFormAt(i, b) ==
  /\ i + 2 < b
  /\ MeasureNameAt(i)
  /\ SymAt(i + 1, "=")
  /\ T(i + 2).kind = tkString

\* The six tokens regexp_like ( measure_name , StringLiteral ) start at i and
\* end before b.
RegexpFormAt(i, b) ==
  /\ i + 5 < b
  /\ T(i).kind = tkIdent /\ T(i).val = "regexp_like"
  /\ SymAt(i + 1, "(")
  /\ MeasureNameAt(i + 2)
  /\ SymAt(i + 3, ",")
  /\ T(i + 4).kind = tkString
  /\ SymAt(i + 5, ")")

\* The occurrence of measure_name at i is part of a valid form that lies
\* inside [a, b).
ValidOccurrence(i, a, b) ==
  \/ EqualsFormAt(i, b)
  \/ i - 2 >= a /\ RegexpFormAt(i - 2, b)

\* The occurrences of the identifier measure_name in [a, b).
Occurrences(a, b) == {i \in a..b - 1 : MeasureNameAt(i)}

\* At least one valid occurrence and no other occurrence.
OnlyValidOccurrences(a, b) ==
  /\ \E i \in Occurrences(a, b) : ValidOccurrence(i, a, b)
  /\ \A i \in Occurrences(a, b) : ValidOccurrence(i, a, b)

\* C9: whereHasMeasureNamePredicate returns true for a branch if and only if
\* the branch holds at least one valid occurrence of measure_name (the six
\* tokens regexp_like ( measure_name , StringLiteral ) or the three tokens
\* measure_name = StringLiteral) and no other occurrence of the identifier;
\* checked for every branch the loop scanned and for every shorter range that
\* starts where the branch starts.
C9_MeasureNamePoisoning ==
  \A k \in 1..Len(sites) :
    \A n \in 1..Len(sites[k].branches) :
      \A b \in sites[k].branches[n][1]..sites[k].branches[n][2] :
        whereHasMeasureNamePredicate(toks, sites[k].branches[n][1], b).v
          = OnlyValidOccurrences(sites[k].branches[n][1], b)

\* A finished call with a branch that holds a valid occurrence and another
\* one with a different operator, and fails for measure_name.
C9_Witness ==
  /\ pc = "done"
  /\ \E k \in 1..Len(sites) : \E n \in 1..Len(sites[k].branches) :
       LET a == sites[k].branches[n][1]
           b == sites[k].branches[n][2]
       IN /\ \E i \in Occurrences(a, b) : ValidOccurrence(i, a, b)
          /\ \E i \in Occurrences(a, b) :
               ~ValidOccurrence(i, a, b) /\ i + 1 < b /\ SymAt(i + 1, "!=")
          /\ ~whereHasMeasureNamePredicate(toks, a, b).v
          /\ \E j \in 1..Len(sites[k].issues) :
               sites[k].issues[j].Reason = reasonMeasure

\* A finished call with a branch poisoned by a malformed regexp_like call.
C9_WitnessMalformedRegexp ==
  /\ pc = "done"
  /\ \E k \in 1..Len(sites) : \E n \in 1..Len(sites[k].branches) :
       LET a == sites[k].branches[n][1]
           b == sites[k].branches[n][2]
       IN \E i \in Occurrences(a, b) :
            /\ i - 2 >= a /\ T(i - 2).val = "regexp_like"
            /\ ~ValidOccurrence(i, a, b)

\* A finished call with a branch whose only occurrences are valid.
C9_WitnessValid ==
  /\ pc = "done"
  /\ \E k \in 1..Len(sites) : \E n \in 1..Len(sites[k].branches) :
       /\ OnlyValidOccurrences(sites[k].branches[n][1], sites[k].branches[n][2])
       /\ \E i \in sites[k].branches[n][1]..sites[k].branches[n][2] - 1 :
            RegexpFormAt(i, sites[k].branches[n][2])

\* ------------------------------------------------------------------------
\* C10
\* ------------------------------------------------------------------------

\* What a comment leaves behind: a line comment that ends at a newline leaves
\* the newline, every other comment leaves nothing.
Residue(com) ==
  IF Len(com) >= 3 /\ Slice(com, 0, 2) = "--" /\ Ch(com, Len(com) - 1) = "\n"
    THEN "\n" ELSE ""

\* The text without its comment.
CommentFree == parts.pre \o Residue(parts.com) \o parts.post

\* The text of a block comment without /* and */.
Unwrapped(com) == Slice(com, 2, Len(com) - 2)

\* The test suite's query with the time predicate inside a block comment.
CommentedOutTime ==
  [pre |-> "select * from d.t where ", com |-> "/* time >= ago(1h) */",
   post |-> " measure_name = 'x'"]

\* C10: the text inside a line comment or a block comment, terminated or
\* running to the end of input, produces no token: the tokens are those of
\* the text without the comment, and so is the verdict, so that a predicate
\* that stands only inside a comment satisfies no requirement; the query that
\* passes with time >= ago(1h) in its WHERE fails once that predicate is
\* wrapped in a block comment.
C10_CommentsAreInvisible ==
  parts.com # "" =>
    /\ pc # "start" => src = CommentFree
    /\ pc \in {"lexed", "sites", "done"} => toks = lex(CommentFree).v
    /\ pc = "done" =>
         /\ ok = Validate(CommentFree).ok
         /\ issues = Validate(CommentFree).issues
         /\ parts = CommentedOutTime =>
              /\ ~ok
              /\ \E i \in 1..Len(issues) : issues[i].Reason = reasonTime
              /\ Validate(parts.pre \o Unwrapped(parts.com) \o parts.post).ok

\* The finished call on the query with the commented-out time predicate.
C10_Witness == pc = "done" /\ parts = CommentedOutTime /\ ~ok

\* A finished call on a text with a line comment that holds both predicates,
\* and one on a text that ends inside a block comment.
C10_WitnessLine ==
  /\ pc = "done" /\ ~ok
  /\ Len(parts.com) >= 2
  /\ Slice(parts.com, 0, 2) = "--" /\ Residue(parts.com) = "\n"
  /\ Validate(parts.pre \o Slice(parts.com, 2, Len(parts.com)) \o parts.post).ok

C10_WitnessOpenBlock ==
  /\ pc = "done" /\ ~ok
  /\ Len(parts.com) >= 2
  /\ Slice(parts.com, 0, 2) = "/*" /\ parts.post = ""
  /\ Validate(parts.pre \o Slice(parts.com, 2, Len(parts.com))).ok

\* ------------------------------------------------------------------------
\* C11
\* ------------------------------------------------------------------------

TimeAt(i) == T(i).kind = tkIdent /\ T(i).val = "time"

CompareAt(j) ==
  T(j).kind = tkSymbol /\ T(j).val \in {"=", "<", ">", "<=", ">=", "<>", "!="}

\* The next token after p in [p, b) that is not deeper than depth D: what is
\* left after skipping only tokens of strictly greater depth; -1 when none.
NextNotDeeper(p, b, D) ==
  LET N == {j \in p + 1..b - 1 : T(j).depth <= D}
  IN IF N = {} THEN -1 ELSE Least(N)

\* The next token after p in [p, b) of exactly depth D: what is left after
\* skipping every token of another depth, deeper or not; -1 when none.
NextOfDepth(p, b, D) ==
  LET N == {j \in p + 1..b - 1 : T(j).depth = D}
  IN IF N = {} THEN -1 ELSE Least(N)

\* The forward rule for the time identifier at i, skipping deeper tokens only.
ForwardSkippingDeeper(i, b) ==
  LET D == T(i).depth
      j == NextNotDeeper(i, b, D)
  IN /\ j # -1
     /\ \/ CompareAt(j)
        \/ KwAt(j, "between")
        \/ /\ KwAt(j, "not")
           /\ NextNotDeeper(j, b, D) # -1
           /\ KwAt(NextNotDeeper(j, b, D), "between")

\* The forward rule for the time identifier at i, skipping every token of
\* another depth.
ForwardSkippingOtherDepths(i, b) ==
  LET D == T(i).depth
      j == NextOfDepth(i, b, D)
  IN /\ j # -1
     /\ \/ CompareAt(j)
        \/ KwAt(j, "between")
        \/ /\ KwAt(j, "not")
           /\ NextOfDepth(j, b, D) # -1
           /\ KwAt(NextOfDepth(j, b, D), "between")

\* The backward rule for the BETWEEN at i in the branch that starts at a: a
\* time identifier of its depth among the up to 6 tokens before it.
BackwardFrom(i, a) ==
  /\ KwAt(i, "between")
  /\ \E k \in a..i - 1 : k >= i - 6 /\ TimeAt(k) /\ T(k).depth = T(i).depth

\* C11: (does not hold) whereHasTimePredicate returns true for a branch if
\* and only if some identifier time of the branch has, as its next token
\* after skipping only tokens of strictly greater depth, a comparison symbol,
\* BETWEEN, or NOT followed under the same rule by BETWEEN, or some BETWEEN of
\* the branch has a time identifier of its own depth among the up to 6
\* tokens before it inside the branch; a time identifier whose next
\* not-deeper token is a ) of lower depth does not satisfy the forward rule.
C11_TimePredicateShape ==
  \A k \in 1..Len(sites) :
    \A n \in 1..Len(sites[k].branches) :
      LET a == sites[k].branches[n][1]
          b == sites[k].branches[n][2]
      IN whereHasTimePredicate(toks, a, b).v
           = (\/ \E i \in a..b - 1 : TimeAt(i) /\ ForwardSkippingDeeper(i, b)
              \/ \E i \in a..b - 1 : BackwardFrom(i, a))

\* The same with the forward rule skipping every token of another depth,
\* which is what the look-ahead loops do.
C11_TimePredicateShapeAnyDepth ==
  \A k \in 1..Len(sites) :
    \A n \in 1..Len(sites[k].branches) :
      LET a == sites[k].branches[n][1]
          b == sites[k].branches[n][2]
      IN \A e \in a..b :
           whereHasTimePredicate(toks, a, e).v
             = (\/ \E i \in a..e - 1 : TimeAt(i) /\ ForwardSkippingOtherDepths(i, e)
                \/ \E i \in a..e - 1 : BackwardFrom(i, a))

\* ------------------------------------------------------------------------
\* C12
\* ------------------------------------------------------------------------

\* The range [a, b) holds no identifier token whose value is exactly time.
NoTimeIdentifier(a, b) == \A i \in a..b - 1 : ~TimeAt(i)

\* The token at i is an identifier named val that is compared or used with
\* BETWEEN inside [i, b).
OtherColumnPredicate(i, b, val) ==
  /\ T(i).kind = tkIdent /\ T(i).val = val
  /\ \/ i + 1 < b /\ (CompareAt(i + 1) \/ KwAt(i + 1, "between"))
     \/ \E j \in i - 6..i - 1 : j >= 0 /\ KwAt(j, "between")

\* The kth site reported a missing time predicate.
HasTimeIssue(k) ==
  \E j \in 1..Len(sites[k].issues) :
    sites[k].issues[j].Reason \in {reasonTime, reasonTimeOr}

C12_WitnessQualified ==
  /\ pc = "done" /\ ~ok
  /\ \E k \in 1..Len(sites) : \E n \in 1..Len(sites[k].branches) :
       /\ NoTimeIdentifier(sites[k].branches[n][1], sites[k].branches[n][2])
       /\ \E i \in sites[k].branches[n][1]..sites[k].branches[n][2] - 1 :
            OtherColumnPredicate(i, sites[k].branches[n][2], "t.time")

C12_WitnessQuoted ==
  /\ pc = "done" /\ ~ok
  /\ \E k \in 1..Len(sites) : \E n \in 1..Len(sites[k].branches) :
       /\ NoTimeIdentifier(sites[k].branches[n][1], sites[k].branches[n][2])
       /\ \E i \in sites[k].branches[n][1]..sites[k].branches[n][2] - 1 :
            OtherColumnPredicate(i, sites[k].branches[n][2], "\"time\"")

\* ------------------------------------------------------------------------
\* C13
\* ------------------------------------------------------------------------

\* Some branch of the WHERE of the kth site lacks a time predicate; some
\* branch lacks a valid measure_name predicate.
SomeBranchLacksTime(k) ==
  \E b \in WhereBranches(k) : ~whereHasTimePredicate(toks, b[1], b[2]).v

SomeBranchLacksMeasure(k) ==
  \E b \in WhereBranches(k) : ~whereHasMeasureNamePredicate(toks, b[1], b[2]).v

\* The wording of the two reasons for a WHERE with n top-level branches.
TimeWording(n) ==
  IF n > 1 THEN "an OR branch in WHERE clause lacks a time predicate"
           ELSE "WHERE clause lacks a time predicate"

MeasureWording(n) ==
  IF n > 1
    THEN "an OR branch in WHERE clause lacks a valid measure_name predicate (requires = '...' or regexp_like)"
    ELSE "WHERE clause lacks a valid measure_name predicate (requires = '...' or regexp_like)"

\* The reasons a site with a WHERE must report, in order.
ExpectedReasons(k) ==
  (IF SomeBranchLacksTime(k)
     THEN <<TimeWording(Cardinality(WhereBranches(k)))>> ELSE <<>>)
  \o
  (IF SomeBranchLacksMeasure(k)
     THEN <<MeasureWording(Cardinality(WhereBranches(k)))>> ELSE <<>>)

\* The issues of the first n processed sites, in the order of the sites.
RECURSIVE IssuesUpTo(_)
IssuesUpTo(n) ==
  IF n = 0 THEN <<>> ELSE IssuesUpTo(n - 1) \o sites[n].issues

\* C13: a base-table select-site with a WHERE clause emits at most two
\* issues: one if any branch lacks a time predicate and one if any branch
\* lacks a valid measure_name predicate, never one per branch, the time issue
\* first; each reason has the "an OR branch in WHERE clause lacks ..." wording
\* exactly when the WHERE has more than one top-level branch; and the issues
\* of the call stand in the order of their SELECT keywords.
C13_IssuesPerSite ==
  /\ \A k \in 1..Len(sites) :
       HasWhere(k) =>
         /\ Len(sites[k].issues) <= 2
         /\ Len(sites[k].issues) = Len(ExpectedReasons(k))
         /\ \A j \in 1..Len(sites[k].issues) :
              sites[k].issues[j].Reason = ExpectedReasons(k)[j]
  /\ \A j, k \in 1..Len(sites) : j < k => sites[j].selIdx < sites[k].selIdx
  /\ pc \in {"sites", "done"} => issues = IssuesUpTo(Len(sites))

\* A finished call with a site whose two branches both lack both predicates
\* and which reports two issues in the OR wording.
C13_Witness ==
  /\ pc = "done"
  /\ \E k \in 1..Len(sites) :
       /\ HasWhere(k)
       /\ Cardinality(WhereBranches(k)) = 2
       /\ \A b \in WhereBranches(k) :
            /\ ~whereHasTimePredicate(toks, b[1], b[2]).v
            /\ ~whereHasMeasureNamePredicate(toks, b[1], b[2]).v
       /\ Len(sites[k].issues) = 2
       /\ sites[k].issues[1].Reason = reasonTimeOr
       /\ sites[k].issues[2].Reason = reasonMeasureOr

\* A finished call with a one-branch WHERE that reports both issues, and one
\* with two sites that each report an issue.
C13_WitnessOneBranch ==
  /\ pc = "done"
  /\ \E k \in 1..Len(sites) :
       /\ HasWhere(k) /\ Cardinality(WhereBranches(k)) = 1
       /\ Len(sites[k].issues) = 2
       /\ sites[k].issues[1].Reason = reasonTime

C13_WitnessTwoSites ==
  /\ pc = "done"
  /\ \E j, k \in 1..Len(sites) :
       /\ j < k /\ HasWhere(j) /\ HasWhere(k)
       /\ sites[j].issues # <<>> /\ sites[k].issues # <<>>
       /\ sites[j].issues # sites[k].issues

\* ------------------------------------------------------------------------
\* C14
\* ------------------------------------------------------------------------

\* The text s keeps the three parts o1, o2, o3 that stand outside the two
\* literals, in place: s is o1, something, o2, something, o3.
KeepsOutside(s, o1, o2, o3) ==
  \E x, y \in 0..Len(s) :
    /\ Len(s) = Len(o1) + x + Len(o2) + y + Len(o3)
    /\ Slice(s, 0, Len(o1)) = o1
    /\ Slice(s, Len(o1) + x, Len(o1) + x + Len(o2)) = o2
    /\ Slice(s, Len(s) - Len(o3), Len(s)) = o3

\* How many of the tokens tk are the keyword word.
KeywordCount(tk, word) ==
  Cardinality({i \in 1..Len(tk) : tk[i].kind = tkKeyword /\ tk[i].val = word})

\* The tokens of the call hold as many SELECT, FROM and WHERE keywords as the
\* tokens of the text twin.
SameClauseKeywords(twin) ==
  \A word \in {"select", "from", "where"} :
    KeywordCount(toks, word) = KeywordCount(lex(twin).v, word)

\* C14: (does not hold) string literals are opaque to comment stripping: when
\* -- or /* stands only inside single-quoted string literals, no character
\* outside the literals is removed, every SELECT, FROM and WHERE keyword
\* outside a literal is still a token, and the verdict is that of the same
\* query with the literals' contents replaced by text free of comment
\* markers.
C14_LiteralsAreOpaque ==
  \A m1, m2 \in LiteralFillings :
    /\ sql = LiteralSelect(m1, m2) =>
         /\ pc # "start" =>
              KeepsOutside(src, "SELECT '", "' FROM db.t WHERE x = '", "'")
         /\ pc \in {"lexed", "sites", "done"} =>
              SameClauseKeywords(LiteralSelect("a", "a"))
         /\ pc = "done" => ok = Validate(LiteralSelect("a", "a")).ok
    /\ sql = LiteralWhere(m1, m2) =>
         /\ pc # "start" =>
              KeepsOutside(src, "select * from d.t where x = '",
                           "' and time > 1 and measure_name = '", "'")
         /\ pc \in {"lexed", "sites", "done"} =>
              SameClauseKeywords(LiteralWhere("a", "a"))
         /\ pc = "done" => ok = Validate(LiteralWhere("a", "a")).ok

\* The verdict alone: a query that reads a base table without the predicates
\* is never accepted because of what its literals hold.
C14_NoBypassThroughLiterals ==
  \A m1, m2 \in LiteralFillings :
    (pc = "done" /\ sql = LiteralSelect(m1, m2)) =>
      (ok => Validate(LiteralSelect("a", "a")).ok)

\* The same for literals that hold no comment marker, where it holds.
C14_MarkerFreeLiterals ==
  \A m1, m2 \in {"a"} :
    (pc = "done" /\ sql \in {LiteralSelect(m1, m2), LiteralWhere(m1, m2)}) =>
      /\ src = sql
      /\ ok = (sql = LiteralWhere(m1, m2))

\* ------------------------------------------------------------------------
\* C15
\* ------------------------------------------------------------------------

OpenAt(i) == SymAt(i, "(")

CloseAt(i) == SymAt(i, ")")

\* How many tokens of [a, b] open, and how many close, a parenthesis.
Opens(a, b) == Cardinality({x \in a..b : OpenAt(x)})

Closes(a, b) == Cardinality({x \in a..b : CloseAt(x)})

\* The ( at i and the ) at j are a matched pair: what stands between them is
\* balanced and never closes more than it has opened.
Matched(i, j) ==
  /\ i < j /\ OpenAt(i) /\ CloseAt(j)
  /\ Opens(i + 1, j - 1) = Closes(i + 1, j - 1)
  /\ \A x \in i + 1..j - 1 : Closes(i + 1, x) <= Opens(i + 1, x)

\* The ) at j has no ( to close: before it, every ( is closed already.
Unmatched(j) ==
  /\ CloseAt(j)
  /\ \A i \in 0..j - 1 : OpenAt(i) => \E x \in i + 1..j - 1 : Matched(i, x)

\* The depth counter before the token at i is read: 0 at the start, one more
\* after each (, one less after each ) but never below zero.
RECURSIVE CounterBefore(_)
CounterBefore(i) ==
  IF i = 0 THEN 0
  ELSE IF OpenAt(i - 1) THEN CounterBefore(i - 1) + 1
  ELSE IF CloseAt(i - 1)
    THEN (IF CounterBefore(i - 1) = 0 THEN 0 ELSE CounterBefore(i - 1) - 1)
  ELSE CounterBefore(i - 1)

\* C15: every token's depth is non-negative; a ( carries the depth before
\* the increment and a ) the depth after the decrement, which is clamped at
\* zero for an unmatched ); so the two delimiters of a matched pair carry the
\* same depth and every token between them a depth at least one greater.
C15_DepthTracking ==
  pc \in {"lexed", "sites", "done"} =>
    /\ \A i \in 0..NTok - 1 :
         /\ T(i).depth >= 0
         /\ OpenAt(i) => T(i).depth = CounterBefore(i)
         /\ OpenAt(i) => CounterBefore(i + 1) = T(i).depth + 1
         /\ CloseAt(i) => T(i).depth = CounterBefore(i + 1)
         /\ (CloseAt(i) /\ CounterBefore(i) > 0) => T(i).depth = CounterBefore(i) - 1
         /\ Unmatched(i) => T(i).depth = 0 /\ CounterBefore(i) = 0
         /\ (~OpenAt(i) /\ ~CloseAt(i)) => T(i).depth = CounterBefore(i)
    /\ \A i, j \in 0..NTok - 1 :
         Matched(i, j) =>
           /\ T(i).depth = T(j).depth
           /\ \A x \in i + 1..j - 1 : T(x).depth >= T(i).depth + 1

\* A finished call whose tokens hold a matched pair inside a matched pair
\* with tokens in between, and an unmatched ) clamped at zero.
C15_Witness ==
  /\ pc = "done"
  /\ \E i, j \in 0..NTok - 1 :
       /\ Matched(i, j) /\ j > i + 1
       /\ \E x \in 0..NTok - 1 : Unmatched(x) /\ x > j /\ T(x).depth = 0

\* A finished call with a matched pair nested in another one.
C15_WitnessNested ==
  /\ pc = "done"
  /\ \E i, j, x, y \in 0..NTok - 1 :
       /\ Matched(i, j) /\ Matched(x, y) /\ i < x /\ y < j
       /\ T(x).depth = T(i).depth + 1

====
